---- MODULE Spec2Model ----
(***************************************************************************)
(* Model of src/tweets/parse_scraped_tweets.py: the media reference        *)
(* classifier image_or_video_id_from_url and the conversion routine        *)
(* tweet_jsons_to_csv (the per-record loop and the table construction      *)
(* after it).                                                              *)
(*                                                                         *)
(* Python strings that the code takes apart (URLs, identifiers, tweet      *)
(* text) are sequences of one-character strings; strings that are only     *)
(* copied or compared whole ("true", "image", field names) are TLA+        *)
(* strings.  A JSON object is a function whose domain is the set of keys   *)
(* present, so that a missing key is a key outside the DOMAIN.  The record *)
(* modelled is the mapping under "otherPropertiesMap".                     *)
(***************************************************************************)
EXTENDS Integers, Sequences, FiniteSets, TLC

VARIABLES
    tweet_jsons,          \* the directory listing: the records in the order os.listdir gives
    i,                    \* number of loop iterations started (tweet_jsons[i] is the current record)
    tweets,               \* the row accumulator
    tweet_media_mapping,  \* integer post id -> [image_ids, video_urls]
    error_count,          \* number of records skipped for a missing key
    pc,                   \* "loop", "break", "done" (returned) or "raised" (exception left the function)
    raised,               \* the exception that left the function, or "none"
    write_media,          \* whether the media_output_json argument was given
    output_file,          \* <<>> until the table is written, then <<table>>
    media_output_json,    \* <<>> until the mapping is written, then <<mapping with string keys>>
    url,                  \* argument of a direct call of image_or_video_id_from_url
    result                \* what that call gave

vars == <<tweet_jsons, i, tweets, tweet_media_mapping, error_count, pc, raised,
          write_media, output_file, media_output_json, url, result>>

----------------------------------------------------------------------------
(* Bounds of the model *)

\* longest free part of a URL handed to the classifier
MaxTail == 2
\* longest directory listing over the full record set
MaxFiles == 2
\* longest directory listing over the two-record set used for long runs
MaxLong == 13

----------------------------------------------------------------------------
(* String constants and string operations *)

IMAGE_PREFIX == <<"h", "t", "t", "p", "s", ":", "/", "/", "p", "b", "s", ".", "t", "w", "i", "m", "g", ".", "c", "o", "m", "/", "m", "e", "d", "i", "a", "/">>

AMPLIFY_PREFIX == <<"h", "t", "t", "p", "s", ":", "/", "/", "v", "i", "d", "e", "o", ".", "t", "w", "i", "m", "g", ".", "c", "o", "m", "/", "a", "m", "p", "l", "i", "f", "y", "_", "v", "i", "d", "e", "o", "/">>

EXT_PREFIX == <<"h", "t", "t", "p", "s", ":", "/", "/", "v", "i", "d", "e", "o", ".", "t", "w", "i", "m", "g", ".", "c", "o", "m", "/", "e", "x", "t", "_", "t", "w", "_", "v", "i", "d", "e", "o", "/">>

IMAGE_QUERY == <<"?", "f", "o", "r", "m", "a", "t", "=", "j", "p", "g", "&", "n", "a", "m", "e", "=", "o", "r", "i", "g">>

\* str.startswith
StartsWith(s, p) == Len(s) >= Len(p) /\ SubSeq(s, 1, Len(p)) = p

\* str.split(sep) for a one-character separator: the pieces between the
\* separators, always at least one piece
RECURSIVE Split(_, _)
Split(s, sep) ==
    IF \A k \in 1..Len(s) : s[k] # sep
    THEN <<s>>
    ELSE LET k == CHOOSE k \in 1..Len(s) : s[k] = sep /\ \A j \in 1..(k - 1) : s[j] # sep
         IN  <<SubSeq(s, 1, k - 1)>> \o Split(SubSeq(s, k + 1, Len(s)), sep)

\* str.replace(old, new) for one-character old and new
Replace(s, old, new) == [k \in 1..Len(s) |-> IF s[k] = old THEN new ELSE s[k]]

DigitValue(c) ==
    CASE c = "0" -> 0 [] c = "1" -> 1 [] c = "2" -> 2 [] c = "3" -> 3 [] c = "4" -> 4
      [] c = "5" -> 5 [] c = "6" -> 6 [] c = "7" -> 7 [] c = "8" -> 8 [] c = "9" -> 9

DigitChar(d) == <<"0", "1", "2", "3", "4", "5", "6", "7", "8", "9">>[d + 1]

\* int(s) for a string of decimal digits
RECURSIVE ParseInt(_)
ParseInt(s) ==
    IF Len(s) = 0 THEN 0
    ELSE 10 * ParseInt(SubSeq(s, 1, Len(s) - 1)) + DigitValue(s[Len(s)])

\* str(n) for n >= 0, as json.dump writes an integer key
RECURSIVE IntToStr(_)
IntToStr(n) ==
    IF n < 10 THEN <<DigitChar(n)>>
    ELSE IntToStr(n \div 10) \o <<DigitChar(n % 10)>>

----------------------------------------------------------------------------
(* image_or_video_id_from_url *)

Returned(v) == [raised |-> "none", value |-> v]

Raised(e) == [raised |-> e, value |-> <<>>]

\* plausible slip: the second video host is forgotten
image_or_video_id_from_url_OneVideoHost(u) ==
    IF StartsWith(u, IMAGE_PREFIX)
    THEN LET last == Split(u, "/") IN Returned(Split(last[Len(last)], "?")[1])
    ELSE IF StartsWith(u, AMPLIFY_PREFIX)
    THEN Returned(u)
    ELSE Raised("ValueError")

\* the id of an image URL, a video URL unchanged, ValueError for anything else
image_or_video_id_from_url(u) ==
    IF StartsWith(u, IMAGE_PREFIX)
    THEN LET last == Split(u, "/") IN Returned(Split(last[Len(last)], "?")[1])
    ELSE IF StartsWith(u, AMPLIFY_PREFIX) \/ StartsWith(u, EXT_PREFIX)
    THEN Returned(u)
    ELSE Raised("ValueError")

----------------------------------------------------------------------------
(* tweet_jsons_to_csv: one pass of the loop over the directory listing *)

\* the seven keys read while tweet_data is built, in the order they are read
REQUIRED_KEYS == <<"status_id", "created_at", "tweet_text", "full_url",
                   "is_quoted_tweet", "is_reply_tweet", "has_media">>

\* the two keys read for a quote or a reply, in the order they are read
TARGET_KEYS == <<"target_tweet_id", "target_tweet_url">>

\* the first key of keys that d lacks (the key the KeyError names), "" if none
FirstMissing(d, keys) ==
    IF \A k \in 1..Len(keys) : keys[k] \in DOMAIN d
    THEN ""
    ELSE keys[CHOOSE k \in 1..Len(keys) :
                  keys[k] \notin DOMAIN d /\ \A j \in 1..(k - 1) : keys[j] \in DOMAIN d]

EMPTY_MEDIA_DICT == [image_ids |-> <<>>, video_urls |-> <<>>]

\* d[k] = v on a dict
Put(d, k, v) == [x \in (DOMAIN d) \cup {k} |-> IF x = k THEN v ELSE d[x]]

\* the threshold of the circuit breaker
ERROR_LIMIT == 10

\* plausible slip: the break is never taken
TooManyErrors_Never(n) == FALSE

\* if error_count > 10
TooManyErrors(n) == n > ERROR_LIMIT

\* plausible slip: except Exception instead of except KeyError
Caught_Any(exc) == exc # "none"

\* except KeyError
Caught(exc) == exc = "KeyError"

\* plausible slip: the elif branch for videos is missing
RECURSIVE MediaLoop_NoVideo(_, _, _)
MediaLoop_NoVideo(entry, media_details, k) ==
    IF k > Len(media_details)
    THEN [exc |-> "none", key |-> "", entry |-> entry]
    ELSE LET media == media_details[k] IN
         IF "type" \notin DOMAIN media
         THEN [exc |-> "KeyError", key |-> "type", entry |-> entry]
         ELSE IF media.type = "image"
         THEN IF "url" \notin DOMAIN media
              THEN [exc |-> "KeyError", key |-> "url", entry |-> entry]
              ELSE LET r == image_or_video_id_from_url(media.url) IN
                   IF r.raised # "none"
                   THEN [exc |-> r.raised, key |-> "", entry |-> entry]
                   ELSE MediaLoop_NoVideo(
                            [entry EXCEPT !.image_ids = Append(@, r.value)],
                            media_details, k + 1)
         ELSE MediaLoop_NoVideo(entry, media_details, k + 1)

\* for media in media_details, from the k-th entry on: the mapping entry as
\* far as it got, and the exception that ended the loop
RECURSIVE MediaLoop(_, _, _)
MediaLoop(entry, media_details, k) ==
    IF k > Len(media_details)
    THEN [exc |-> "none", key |-> "", entry |-> entry]
    ELSE LET media == media_details[k] IN
         IF "type" \notin DOMAIN media
         THEN [exc |-> "KeyError", key |-> "type", entry |-> entry]
         ELSE IF media.type = "image"
         THEN IF "url" \notin DOMAIN media
              THEN [exc |-> "KeyError", key |-> "url", entry |-> entry]
              ELSE LET r == image_or_video_id_from_url(media.url) IN
                   IF r.raised # "none"
                   THEN [exc |-> r.raised, key |-> "", entry |-> entry]
                   ELSE MediaLoop([entry EXCEPT !.image_ids = Append(@, r.value)],
                                  media_details, k + 1)
         ELSE IF media.type = "video"
         THEN IF "url" \notin DOMAIN media
              THEN [exc |-> "KeyError", key |-> "url", entry |-> entry]
              ELSE LET r == image_or_video_id_from_url(media.url) IN
                   IF r.raised # "none"
                   THEN [exc |-> r.raised, key |-> "", entry |-> entry]
                   ELSE MediaLoop([entry EXCEPT !.video_urls = Append(@, r.value)],
                                  media_details, k + 1)
         ELSE MediaLoop(entry, media_details, k + 1)

\* the dict literal of tweet_data, for a record that has the seven keys
TweetData(tweet) ==
    [tweet_id        |-> tweet.status_id,
     created_at      |-> tweet.created_at,
     tweet_text      |-> Replace(tweet.tweet_text, "\n", " "),
     tweet_url       |-> tweet.full_url,
     is_quoted_tweet |-> tweet.is_quoted_tweet,
     is_reply_tweet  |-> tweet.is_reply_tweet,
     has_media       |-> tweet.has_media]

\* the try block: the exception it ends with (and the key a KeyError names),
\* the row it built and the media mapping as it left it.  The mapping entry
\* is assigned before media_details is read.
TryBlock(tweet, mapping) ==
    LET k1 == FirstMissing(tweet, REQUIRED_KEYS) IN
    IF k1 # ""
    THEN [exc |-> "KeyError", key |-> k1, tweet_data |-> <<>>, mapping |-> mapping]
    ELSE
    LET base   == TweetData(tweet)
        linked == base.is_quoted_tweet = "true" \/ base.is_reply_tweet = "true"
        k2     == IF linked THEN FirstMissing(tweet, TARGET_KEYS) ELSE ""
        data   == IF linked /\ k2 = ""
                  THEN base @@ [target_tweet_id  |-> tweet.target_tweet_id,
                                target_tweet_url |-> tweet.target_tweet_url]
                  ELSE base
    IN
    IF k2 # ""
    THEN [exc |-> "KeyError", key |-> k2, tweet_data |-> <<>>, mapping |-> mapping]
    ELSE IF tweet.has_media # "true"
    THEN [exc |-> "none", key |-> "", tweet_data |-> data, mapping |-> mapping]
    ELSE
    LET tweet_id == ParseInt(tweet.status_id)
        fresh    == Put(mapping, tweet_id, EMPTY_MEDIA_DICT)
    IN
    IF "media_details" \notin DOMAIN tweet
    THEN [exc |-> "KeyError", key |-> "media_details", tweet_data |-> <<>>,
          mapping |-> fresh]
    ELSE LET m == MediaLoop(EMPTY_MEDIA_DICT, tweet.media_details, 1) IN
         [exc |-> m.exc, key |-> m.key,
          tweet_data |-> IF m.exc = "none" THEN data ELSE <<>>,
          mapping |-> Put(mapping, tweet_id, m.entry)]

\* the state of a run, as the loop body reads and writes it
RunState(ts, mapping, errors, at, exc) ==
    [tweets |-> ts, mapping |-> mapping, error_count |-> errors, pc |-> at, raised |-> exc]

\* the except clause: its first print reads status_id again, and a KeyError
\* raised there leaves the function
ExceptKeyError(s, tweet, mapping) ==
    IF "status_id" \notin DOMAIN tweet
    THEN RunState(s.tweets, mapping, s.error_count, "raised", "KeyError")
    ELSE IF TooManyErrors(s.error_count + 1)
    THEN RunState(s.tweets, mapping, s.error_count + 1, "break", "none")
    ELSE RunState(s.tweets, mapping, s.error_count + 1, "loop", "none")

\* one iteration of the for loop on the record tweet
LoopBody(s, tweet) ==
    LET t == TryBlock(tweet, s.mapping) IN
    IF Caught(t.exc)
    THEN ExceptKeyError(s, tweet, t.mapping)
    ELSE IF t.exc # "none"
    THEN RunState(s.tweets, t.mapping, s.error_count, "raised", t.exc)
    ELSE RunState(Append(s.tweets, t.tweet_data), t.mapping, s.error_count, "loop", "none")

----------------------------------------------------------------------------
(* tweet_jsons_to_csv: the table built and written after the loop *)

\* Series.map({'true': True, 'false': False}); <<>> is a missing value
BoolMap(v) == IF v = "true" THEN <<TRUE>> ELSE IF v = "false" THEN <<FALSE>> ELSE <<>>

NullStr == <<"n", "u", "l", "l">>

\* one row of the frame after the column conversions; a column the row's dict
\* lacks holds a missing value
FrameRow(row) ==
    [tweet_id         |-> ParseInt(row.tweet_id),
     created_at       |-> <<"datetime", row.created_at>>,
     tweet_text       |-> row.tweet_text,
     tweet_url        |-> row.tweet_url,
     is_quoted_tweet  |-> BoolMap(row.is_quoted_tweet),
     is_reply_tweet   |-> BoolMap(row.is_reply_tweet),
     has_media        |-> BoolMap(row.has_media),
     target_tweet_id  |-> IF "target_tweet_id" \notin DOMAIN row
                             \/ row.target_tweet_id = NullStr
                          THEN <<>> ELSE <<ParseInt(row.target_tweet_id)>>,
     target_tweet_url |-> IF "target_tweet_url" \notin DOMAIN row
                             \/ row.target_tweet_url = "null"
                          THEN <<>> ELSE <<row.target_tweet_url>>]

\* json.dump of the mapping: integer keys are written as strings
DumpMapping(mapping) ==
    [k \in {IntToStr(n) : n \in DOMAIN mapping} |-> mapping[ParseInt(k)]]

\* the columns of pd.DataFrame(rows): the keys of all the dicts
Columns(rows) == UNION {DOMAIN rows[k] : k \in 1..Len(rows)}

\* lines 182-202: a column that no row has raises KeyError before anything
\* is written
BuildAndWriteResult(rows, mapping, with_media) ==
    IF "tweet_id" \notin Columns(rows) \/ "target_tweet_id" \notin Columns(rows)
    THEN [pc |-> "raised", raised |-> "KeyError", output_file |-> <<>>,
          media_output_json |-> <<>>]
    ELSE [pc |-> "done", raised |-> "none",
          output_file |-> <<[k \in 1..Len(rows) |-> FrameRow(rows[k])]>>,
          media_output_json |-> IF with_media THEN <<DumpMapping(mapping)>> ELSE <<>>]

----------------------------------------------------------------------------
(* The records and URLs the model is run on *)

TWEET_VIDEO_HOST == <<"h", "t", "t", "p", "s", ":", "/", "/", "v", "i", "d", "e", "o", ".", "t", "w", "i", "m", "g", ".", "c", "o", "m", "/", "t", "w", "e", "e", "t", "_", "v", "i", "d", "e", "o", "/">>

HTTP_IMAGE_HOST == <<"h", "t", "t", "p", ":", "/", "/", "p", "b", "s", ".", "t", "w", "i", "m", "g", ".", "c", "o", "m", "/", "m", "e", "d", "i", "a", "/">>

IMAGE_HOST_ROOT == <<"h", "t", "t", "p", "s", ":", "/", "/", "p", "b", "s", ".", "t", "w", "i", "m", "g", ".", "c", "o", "m", "/">>

VIDEO_TAIL == <<".", "m", "p", "4", "?", "t", "a", "g", "=", "1", "3">>

\* all sequences over S of length at most n
SeqsUpTo(S, n) == UNION {[1..k -> S] : k \in 0..n}

\* characters of the free part of a URL: two identifier characters and the
\* two separators the classifier splits on
TailChars == {"F", "9", "/", "?"}

IdChars == {"F", "9"}

UrlHeads == {IMAGE_PREFIX, AMPLIFY_PREFIX, EXT_PREFIX, TWEET_VIDEO_HOST,
             HTTP_IMAGE_HOST, IMAGE_HOST_ROOT, <<>>}

UrlEnds == {<<>>, IMAGE_QUERY, VIDEO_TAIL}

\* the URLs handed to the classifier directly
UrlSet == {h \o t \o e : h \in UrlHeads, t \in SeqsUpTo(TailChars, MaxTail), e \in UrlEnds}

ImgUrl == IMAGE_PREFIX \o <<"F", "9">> \o IMAGE_QUERY

VidUrl == AMPLIFY_PREFIX \o <<"9", "/", "F">> \o VIDEO_TAIL

BadUrl == TWEET_VIDEO_HOST \o <<"F">> \o VIDEO_TAIL

Media(type, u) == [type |-> type, url |-> u]

\* the media_details lists of the records
MediaDetailsSet ==
    { <<>>,
      <<Media("image", ImgUrl)>>,
      <<Media("video", VidUrl)>>,
      <<Media("image", ImgUrl), Media("video", VidUrl)>>,
      <<Media("video", ImgUrl)>>,
      <<Media("image", VidUrl)>>,
      <<Media("animated_gif", BadUrl)>>,
      <<Media("image", BadUrl)>>,
      <<Media("video", BadUrl)>>,
      <<Media("image", ImgUrl), Media("image", BadUrl)>>,
      <<Media("image", ImgUrl), [type |-> "video"]>>,
      <<[url |-> ImgUrl], Media("image", BadUrl)>>,
      <<[type |-> "animated_gif"], Media("video", VidUrl)>> }

Id1 == <<"7">>

Id2 == <<"4", "2">>

TargetId == <<"1", "9">>

Scalars(id, quoted, reply, media) ==
    [status_id       |-> id,
     created_at      |-> "Thu Oct 26 18:01:34 +0000 2023",
     tweet_text      |-> <<"a", "\n", "b">>,
     full_url        |-> "https://twitter.com/MBTA/status/" ,
     is_quoted_tweet |-> quoted,
     is_reply_tweet  |-> reply,
     has_media       |-> media]

WithTarget(rec, tid, turl) == rec @@ [target_tweet_id |-> tid, target_tweet_url |-> turl]

WithMedia(rec, details) == rec @@ [media_details |-> details]

Without(rec, key) == [x \in (DOMAIN rec) \ {key} |-> rec[x]]

\* a reply with one image: every key the loop can read is there
FullRecord(id) ==
    WithMedia(WithTarget(Scalars(id, "false", "true", "true"), TargetId,
                         "https://twitter.com/MBTA/status/19"),
              <<Media("image", ImgUrl)>>)

\* a record with no tweet_text
NoTextRecord(id) == Without(FullRecord(id), "tweet_text")

\* the records of the short listings
RecordSet ==
    { Scalars(id, "false", "false", "false") : id \in {Id1, Id2} }
    \cup { WithTarget(Scalars(id, "false", "true", "false"), TargetId,
                      "https://twitter.com/MBTA/status/19") : id \in {Id1, Id2} }
    \cup { WithTarget(Scalars(Id1, "true", "false", "false"), NullStr, "null") }
    \cup { Scalars(id, "false", "false", "true") : id \in {Id1, Id2} }
    \cup { WithMedia(Scalars(Id1, "false", "false", "false"), <<Media("image", BadUrl)>>) }
    \cup { WithMedia(Scalars(Id2, "false", "false", "true"), <<Media("video", VidUrl)>>) }
    \cup { WithMedia(Without(Without(FullRecord(Id1), "media_details"), "target_tweet_id"),
                     <<Media("image", BadUrl)>>) }
    \cup { WithMedia(Without(FullRecord(Id1), "media_details"), d) : d \in MediaDetailsSet }
    \cup { Without(FullRecord(Id1), k) :
             k \in {REQUIRED_KEYS[n] : n \in 1..Len(REQUIRED_KEYS)}
                   \cup {TARGET_KEYS[n] : n \in 1..Len(TARGET_KEYS)} }

\* the records of the long listings: one that is processed, one that is skipped
LongRecordSet == {FullRecord(Id1), NoTextRecord(Id2)}

----------------------------------------------------------------------------
(* The state machine *)

InitRun ==
    /\ i = 0
    /\ tweets = <<>>
    /\ tweet_media_mapping = <<>>
    /\ error_count = 0
    /\ pc = "loop"
    /\ raised = "none"
    /\ output_file = <<>>
    /\ media_output_json = <<>>

\* a call of tweet_jsons_to_csv on a directory of at most MaxFiles records,
\* with or without the media_output_json argument
Init ==
    /\ tweet_jsons \in SeqsUpTo(RecordSet, MaxFiles)
    /\ write_media \in BOOLEAN
    /\ InitRun
    /\ url = <<>>
    /\ result = <<>>

\* a call of tweet_jsons_to_csv on a directory of at most MaxLong records,
\* with the media_output_json argument
InitLong ==
    /\ tweet_jsons \in SeqsUpTo(LongRecordSet, MaxLong)
    /\ write_media = TRUE
    /\ InitRun
    /\ url = <<>>
    /\ result = <<>>

\* a call of image_or_video_id_from_url
InitUrl ==
    /\ tweet_jsons = <<>>
    /\ write_media = FALSE
    /\ InitRun
    /\ url \in UrlSet
    /\ result = <<>>

Current == RunState(tweets, tweet_media_mapping, error_count, pc, raised)

\* lines 138-179: the next record of the listing goes through the loop body
ProcessTweet ==
    /\ pc = "loop"
    /\ i < Len(tweet_jsons)
    /\ LET s == LoopBody(Current, tweet_jsons[i + 1]) IN
        /\ i' = i + 1
        /\ tweets' = s.tweets
        /\ tweet_media_mapping' = s.mapping
        /\ error_count' = s.error_count
        /\ pc' = s.pc
        /\ raised' = s.raised
    /\ UNCHANGED <<tweet_jsons, write_media, output_file, media_output_json, url, result>>

\* lines 181-202: the loop has ended (listing exhausted, or break)
BuildAndWrite ==
    /\ \/ pc = "loop" /\ i = Len(tweet_jsons)
       \/ pc = "break"
    /\ LET w == BuildAndWriteResult(tweets, tweet_media_mapping, write_media) IN
        /\ pc' = w.pc
        /\ raised' = w.raised
        /\ output_file' = w.output_file
        /\ media_output_json' = w.media_output_json
    /\ UNCHANGED <<tweet_jsons, i, tweets, tweet_media_mapping, error_count, write_media,
                   url, result>>

\* lines 56-67
Classify ==
    /\ result = <<>>
    /\ result' = <<image_or_video_id_from_url(url)>>
    /\ UNCHANGED <<tweet_jsons, i, tweets, tweet_media_mapping, error_count, pc, raised,
                   write_media, output_file, media_output_json, url>>

Next == ProcessTweet \/ BuildAndWrite

NextUrl == Classify

Spec == Init /\ [][Next]_vars

SpecLong == InitLong /\ [][Next]_vars

SpecUrl == InitUrl /\ [][NextUrl]_vars

----------------------------------------------------------------------------
(* The whole run as a function of the listing *)

\* the loop from the k-th record on, until the listing ends or the loop is left
RECURSIVE LoopAll(_, _, _)
LoopAll(s, listing, k) ==
    IF s.pc # "loop" \/ k > Len(listing)
    THEN s
    ELSE LoopAll(LoopBody(s, listing[k]), listing, k + 1)

\* tweet_jsons_to_csv on a listing: how it ends and what it wrote
RunResult(listing, with_media) ==
    LET s == LoopAll(RunState(<<>>, <<>>, 0, "loop", "none"), listing, 1) IN
    IF s.pc = "raised"
    THEN [pc |-> "raised", raised |-> s.raised, output_file |-> <<>>,
          media_output_json |-> <<>>]
    ELSE BuildAndWriteResult(s.tweets, s.mapping, with_media)

----------------------------------------------------------------------------
(* Vocabulary of the properties *)

Rec(k) == tweet_jsons[k]

Has(t, key) == key \in DOMAIN t

InLoop == pc = "loop" /\ i < Len(tweet_jsons)

Ended == pc \in {"done", "raised"}

\* the record lacks one of the seven keys, or is a quote or reply and lacks a
\* target key
LacksRequiredKey(t) ==
    \/ \E n \in 1..Len(REQUIRED_KEYS) : ~Has(t, REQUIRED_KEYS[n])
    \/ /\ t.is_quoted_tweet = "true" \/ t.is_reply_tweet = "true"
       /\ \E n \in 1..Len(TARGET_KEYS) : ~Has(t, TARGET_KEYS[n])

Recognized(u) ==
    StartsWith(u, IMAGE_PREFIX) \/ StartsWith(u, AMPLIFY_PREFIX) \/ StartsWith(u, EXT_PREFIX)

\* has_media is "true" and media_details is there
MediaRecord(t) == Has(t, "has_media") /\ t.has_media = "true" /\ Has(t, "media_details")

\* some entry of media_details has a url that matches no recognized prefix
HasUnrecognizedUrl(t) ==
    /\ MediaRecord(t)
    /\ \E k \in 1..Len(t.media_details) :
           Has(t.media_details[k], "url") /\ ~Recognized(t.media_details[k].url)

Classified(e) == Has(e, "type") /\ e.type \in {"image", "video"}

\* the record has every required key, and the loop over media_details reaches
\* an image or video entry with an unrecognized url
ReachesUnrecognizedUrl(t) ==
    /\ ~LacksRequiredKey(t)
    /\ MediaRecord(t)
    /\ \E k \in 1..Len(t.media_details) :
        /\ Classified(t.media_details[k])
        /\ Has(t.media_details[k], "url")
        /\ ~Recognized(t.media_details[k].url)
        /\ \A j \in 1..(k - 1) :
            /\ Has(t.media_details[j], "type")
            /\ Classified(t.media_details[j]) => Has(t.media_details[j], "url")

\* the run is over with the invalid-reference error and nothing written
AbortedInvalidReference ==
    /\ pc = "raised"
    /\ raised = "ValueError"
    /\ output_file = <<>>
    /\ media_output_json = <<>>

Reverse(s) == [k \in 1..Len(s) |-> s[Len(s) + 1 - k]]

RowSet(written) == IF written = <<>> THEN {} ELSE {written[1][k] : k \in 1..Len(written[1])}

NotSkipped(t) == ~LacksRequiredKey(t)

\* the part of a URL after its last "/" and before the first "?" that follows
IsLastSegment(v, u) ==
    \E a \in 1..Len(u) :
        /\ u[a] = "/"
        /\ \A j \in (a + 1)..Len(u) : u[j] # "/"
        /\ \E n \in 0..(Len(u) - a) :
            /\ v = SubSeq(u, a + 1, a + n)
            /\ \A j \in (a + 1)..(a + n) : u[j] # "?"
            /\ a + n = Len(u) \/ u[a + n + 1] = "?"

----------------------------------------------------------------------------
(* Properties *)

\* C1 (as claimed): every key of the media mapping is the post identifier of
\* a row of the accumulator whose has_media is "true"; a record skipped for a
\* missing key leaves no entry.
C1_MappingKeysAreMediaRows ==
    \A id \in DOMAIN tweet_media_mapping :
        \E j \in 1..Len(tweets) :
            ParseInt(tweets[j].tweet_id) = id /\ tweets[j].has_media = "true"

\* C2: once the skip counter has passed the limit, the loop stopped at the
\* record that was the 11th skip: the rows are exactly the records before it
\* that lack no key, in order, the mapping holds only their identifiers, and
\* no record after it was read.
C2_NothingAfterEleventhSkip ==
    error_count > ERROR_LIMIT =>
        LET kept == SelectSeq(SubSeq(tweet_jsons, 1, i), NotSkipped) IN
        /\ pc # "loop"
        /\ i \in 1..Len(tweet_jsons)
        /\ LacksRequiredKey(Rec(i))
        /\ Cardinality({k \in 1..i : LacksRequiredKey(Rec(k))}) = ERROR_LIMIT + 1
        /\ Len(tweets) = Len(kept)
        /\ \A j \in 1..Len(kept) : tweets[j] = TweetData(kept[j]) @@ tweets[j]
        /\ DOMAIN tweet_media_mapping
             \subseteq {ParseInt(kept[j].status_id) : j \in 1..Len(kept)}
        /\ output_file # <<>> => Len(output_file[1]) = Len(kept)

\* C2 witness: the loop was left at the 11th skip with a sound record read
\* before it and another still unread behind it, and the table was written
C2_Witness ==
    /\ error_count > ERROR_LIMIT
    /\ pc = "done"
    /\ Len(tweets) >= 1
    /\ \E k \in (i + 1)..Len(tweet_jsons) : ~LacksRequiredKey(Rec(k))

\* C3 (as claimed): while the skip counter is at most 10, a record lacking a
\* required key adds no row, raises the counter by exactly 1, and the loop
\* goes on.
C3_MissingKeySkipsAndContinues ==
    [][ (InLoop /\ error_count <= ERROR_LIMIT /\ LacksRequiredKey(Rec(i + 1)))
        => (tweets' = tweets /\ error_count' = error_count + 1 /\ pc' = "loop") ]_vars

\* C4 (as claimed): a has_media record with any media entry whose url is
\* unrecognized aborts the run with the invalid-reference error, whatever the
\* entry's type.
C4_AnyUnrecognizedUrlAborts ==
    [][ (InLoop /\ HasUnrecognizedUrl(Rec(i + 1)))
        => (AbortedInvalidReference' /\ error_count' = error_count) ]_vars

\* C4 (amended): a record that has every required key aborts the run with the
\* invalid-reference error when the loop over media_details reaches an image
\* or video entry with an unrecognized url: no skip is counted, no row is
\* added, nothing is written, and no step follows.
C4_ReachedUnrecognizedUrlAborts ==
    [][ /\ (InLoop /\ ReachesUnrecognizedUrl(Rec(i + 1)))
           => (AbortedInvalidReference' /\ error_count' = error_count /\ tweets' = tweets)
        /\ pc = "raised" => vars' = vars ]_vars

\* C4 witness: the run ended on such a record
C4_Witness ==
    /\ i >= 1
    /\ ReachesUnrecognizedUrl(Rec(i))
    /\ AbortedInvalidReference
    /\ i < Len(tweet_jsons)

\* C5 (as claimed): a has_media record processed without error has a mapping
\* entry whose two lists together are as long as media_details.
C5_EntryLengthsSumToMediaDetails ==
    [][ (InLoop /\ MediaRecord(Rec(i + 1)) /\ pc' = "loop" /\ Len(tweets') = Len(tweets) + 1)
        => LET id == ParseInt(Rec(i + 1).status_id) IN
           /\ id \in DOMAIN tweet_media_mapping'
           /\ Len(tweet_media_mapping'[id].image_ids)
                + Len(tweet_media_mapping'[id].video_urls)
              = Len(Rec(i + 1).media_details) ]_vars

\* C5 (amended): a has_media record processed without error has a mapping
\* entry under its integer identifier whose two lists together are as long as
\* the number of media_details entries of type "image" or "video".
C5_EntryLengthsSumToClassified ==
    [][ (InLoop /\ MediaRecord(Rec(i + 1)) /\ pc' = "loop" /\ Len(tweets') = Len(tweets) + 1)
        => LET id == ParseInt(Rec(i + 1).status_id)
               md == Rec(i + 1).media_details
           IN
           /\ id \in DOMAIN tweet_media_mapping'
           /\ Len(tweet_media_mapping'[id].image_ids)
                + Len(tweet_media_mapping'[id].video_urls)
              = Cardinality({k \in 1..Len(md) : Classified(md[k])}) ]_vars

\* C5 witness: a record with an image and a video was appended and its entry
\* holds one of each
C5_Witness ==
    /\ pc = "loop"
    /\ i >= 1
    /\ MediaRecord(Rec(i))
    /\ Len(Rec(i).media_details) = 2
    /\ Len(tweets) >= 1
    /\ tweets[Len(tweets)].tweet_id = Rec(i).status_id
    /\ LET id == ParseInt(Rec(i).status_id) IN
        /\ id \in DOMAIN tweet_media_mapping
        /\ Len(tweet_media_mapping[id].image_ids) = 1
        /\ Len(tweet_media_mapping[id].video_urls) = 1

\* C6: the classifier gives the identifier of a canonical image URL and, for
\* any URL on the image host, its last path segment without the query; gives
\* a URL on either video host back unchanged; and raises ValueError, with no
\* value, for every other URL.
C6_ClassifierThreeWay ==
    result # <<>> =>
        LET r == result[1] IN
        /\ \A id \in SeqsUpTo(IdChars, MaxTail) :
               url = IMAGE_PREFIX \o id \o IMAGE_QUERY => r = Returned(id)
        /\ StartsWith(url, IMAGE_PREFIX) => r.raised = "none" /\ IsLastSegment(r.value, url)
        /\ StartsWith(url, AMPLIFY_PREFIX) \/ StartsWith(url, EXT_PREFIX) => r = Returned(url)
        /\ ~Recognized(url) => r = Raised("ValueError")

\* C6 witness: a canonical image URL was classified to its identifier
C6_Witness ==
    /\ result # <<>>
    /\ url = IMAGE_PREFIX \o <<"F", "9">> \o IMAGE_QUERY
    /\ result[1] = Returned(<<"F", "9">>)

\* C7 (as claimed): once the skip counter exceeds 10 the run does not complete
\* normally and writes neither the table nor the mapping.
C7_TooManyErrorsIsFatal ==
    error_count > ERROR_LIMIT =>
        pc # "done" /\ output_file = <<>> /\ media_output_json = <<>>

\* C8 (as claimed): every element of every video_urls list is the whole url
\* of a media entry of a record read so far.
C8_VideoUrlsAreWholeUrls ==
    \A id \in DOMAIN tweet_media_mapping :
        \A n \in 1..Len(tweet_media_mapping[id].video_urls) :
            \E k \in 1..i :
                /\ Has(Rec(k), "media_details")
                /\ \E m \in 1..Len(Rec(k).media_details) :
                    /\ Has(Rec(k).media_details[m], "url")
                    /\ Rec(k).media_details[m].url = tweet_media_mapping[id].video_urls[n]

\* C9 (as claimed): a run on a listing with no unrecognized media url and at
\* most 10 skips (every record naming its post) ends with the table written,
\* one row per record that was not skipped.
C9_CleanListingIsWritten ==
    ( /\ Ended
      /\ error_count <= ERROR_LIMIT
      /\ \A k \in 1..Len(tweet_jsons) :
             Has(Rec(k), "status_id") /\ ~HasUnrecognizedUrl(Rec(k)) )
    => ( /\ pc = "done"
         /\ Len(output_file) = 1
         /\ Len(output_file[1]) = Len(tweets) )

\* C10 (as claimed): the run on the listing in reverse order ends the same
\* way, with the same set of rows in the table and the same mapping.
C10_OrderIndependent ==
    Ended =>
        LET other == RunResult(Reverse(tweet_jsons), write_media) IN
        /\ other.pc = pc
        /\ RowSet(other.output_file) = RowSet(output_file)
        /\ other.media_output_json = media_output_json

====
